---- MODULE Spec2Model ----
(***************************************************************************)
(* Selection machinery of evogil: the IBEA engine (algorithms/IBEA/IBEA.py)*)
(* with its migration proxy, and the SMS-EMOA engine                       *)
(* (ep/smsemoa/smsemoa.py).                                                *)
(*                                                                         *)
(* Numbers.  Decision vectors are tuples of small naturals and the i-th    *)
(* objective is the i-th coordinate, so every tuple of objective values is *)
(* the image of a vector.  A scaled objective difference is                *)
(* (f(x) - f(y)) / (max - min + eps); eps (sys.float_info.epsilon) is      *)
(* treated as a positive infinitesimal, so a value is a pair <<h, l>>      *)
(* standing for h/eps + l/L, with L the product of the non-zero ranges,    *)
(* and pairs are ordered lexicographically.  A fitness is a finite sum of  *)
(* terms +-exp(q / kappa); it is kept as the map q |-> coefficient, which  *)
(* determines the real number (exponentials of distinct rationals are      *)
(* linearly independent), and two fitnesses are ordered by the coefficient *)
(* of the largest exponent at which they differ, which is the order of the *)
(* real numbers for the small kappa the engine is run with (0.05).         *)
(***************************************************************************)
EXTENDS Integers, Sequences, FiniteSets, TLC

\* ------------------------------------------------------------- bounds
MaxVal == 1
MaxPop == 2
MaxGen == 2
MatingDen == 2
MaxMigrants == 1
MaxMoves == 2

MaxSmsPop == 3
MaxBudget == 1

VARIABLES
    \* IBEA engine
    individuals, v, known_objectives, population_size, mating_size, nobj,
    fitness_archive, cost, generation_counter, scaled_objectives, indicators,
    c, fitness, mating_individuals, raised, finished,
    \* population_generator and the proxy it yielded
    gen_started, proxy_live, abroad, moves,
    \* history: who has been evaluated, the first evaluations counted, the
    \* Individuals assimilate_immigrants stored, those the selection removed
    evaluated, first_evals, received, removed,
    \* position inside finish() when it is run statement by statement
    pc,
    \* SMS-EMOA engine
    sms

ibeaVars == <<individuals, v, known_objectives, population_size, mating_size,
              nobj, fitness_archive, cost, generation_counter,
              scaled_objectives, indicators, c, fitness, mating_individuals,
              raised, finished, gen_started, proxy_live, abroad, moves,
              evaluated, first_evals, received, removed, pc>>

vars == <<ibeaVars, sms>>

\* ------------------------------------------------------------ helpers
Range(s) == {s[i] : i \in DOMAIN s}

MinOf(S) == CHOOSE x \in S : \A y \in S : x <= y

MaxOf(S) == CHOOSE x \in S : \A y \in S : x >= y

\* The decision vectors of the engine runs: one coordinate, one objective.
Vectors == {<<a>> : a \in 0..MaxVal}

RECURSIVE SeqOfSet(_)
SeqOfSet(S) ==
    IF S = {} THEN <<>>
    ELSE LET m == MinOf(S) IN <<m>> \o SeqOfSet(S \ {m})

RECURSIVE GCD(_, _)
GCD(a, b) == IF b = 0 THEN a ELSE GCD(b, a % b)

AbsInt(a) == IF a < 0 THEN -a ELSE a

\* The rational n/d (d > 0) in lowest terms.
Reduce(n, d) ==
    LET g == GCD(AbsInt(n), d) IN <<n \div g, d \div g>>

FracLess(p, q) == p[1] * q[2] < q[1] * p[2]

\* Values h/eps + l/L, ordered lexicographically.
LexLess(a, b) == a[1] < b[1] \/ (a[1] = b[1] /\ a[2] < b[2])

LexMax(S) == CHOOSE a \in S : \A b \in S : ~LexLess(a, b)

LexAbs(a) == IF LexLess(a, <<0, 0>>) THEN <<-a[1], -a[2]>> ELSE a

LexSub(a, b) == <<a[1] - b[1], a[2] - b[2]>>

\* ------------------------------------------------ objectives and scaling
Objective(i, vec) == vec[i]

\* min_max = lambda x: (min(x), max(x)) over the population, per objective.
MinMax(inds, vv, n) ==
    [i \in 1..n |->
        LET vals == {Objective(i, vv[x]) : x \in Range(inds)}
        IN  <<MinOf(vals), MaxOf(vals)>>]

RangeOf(sc, i) == sc[i][2] - sc[i][1]

\* Common denominator of the finite parts: the product of the non-zero ranges.
RECURSIVE Denominator(_, _)
Denominator(sc, i) ==
    IF i = 0 THEN 1
    ELSE (IF RangeOf(sc, i) = 0 THEN 1 ELSE RangeOf(sc, i)) * Denominator(sc, i - 1)

\* scaled(x) = (fun(x) - min_o) / (max_o - min_o + eps)
Scale(sc, i, vec) ==
    LET num == Objective(i, vec) - sc[i][1]
    IN  IF RangeOf(sc, i) = 0 THEN <<num, 0>>
        ELSE <<0, num * (Denominator(sc, Len(sc)) \div RangeOf(sc, i))>>

\* EPlusIndicator.__call__: max over the scaled objectives of s(x1) - s(x2).
EPlusIndicator(sc, x1, x2) ==
    LexMax({LexSub(Scale(sc, i, x1), Scale(sc, i, x2)) : i \in 1..Len(sc)})

\* The exponent of exp(-I / |c*k + eps|), as a multiple of 1/k in lowest terms.
Exponent(ind, cc) ==
    IF cc[1] > 0 THEN Reduce(-ind[1], cc[1])
    ELSE IF cc[2] > 0 THEN Reduce(-ind[2], cc[2])
    ELSE <<0, 1>>

\* Sums of exponentials: the map exponent |-> coefficient, zero entries dropped.
Zero == <<>>

Coef(f, q) == IF q \in DOMAIN f THEN f[q] ELSE 0

AddTerm(f, q, k) ==
    LET dom == IF Coef(f, q) + k = 0 THEN DOMAIN f \ {q} ELSE DOMAIN f \cup {q}
    IN  [p \in dom |-> IF p = q THEN Coef(f, q) + k ELSE f[p]]

FitLess(a, b) ==
    LET diff == {q \in DOMAIN a \cup DOMAIN b : Coef(a, q) # Coef(b, q)}
    IN  /\ diff # {}
        /\ LET top == CHOOSE q \in diff : \A p \in diff : ~FracLess(q, p)
           IN  Coef(a, top) < Coef(b, top)

\* ------------------------------------------------------ the IBEA engine
\* The engine's mutable fields as one value, so that the statements of a
\* method compose; `rebound` records that self.individuals was assigned a new
\* list (line 144), which detaches the list a proxy was given.
Engine ==
    [individuals |-> individuals, known |-> known_objectives, cost |-> cost,
     scaled |-> scaled_objectives, indicators |-> indicators, c |-> c,
     fitness |-> fitness, raised |-> raised, rebound |-> FALSE,
     evaluated |-> evaluated, first_evals |-> first_evals, removed |-> <<>>]

InArchive(vec) == fitness_archive.present /\ vec \in fitness_archive.keys

\* IBEA._scale_objectives, the condition of line 120.
ScaleCounts(E, vv, x) == ~E.known[x] \/ ~InArchive(vv[x])

\* What the evaluation counter is documented to count: an individual not
\* evaluated before whose vector the archive does not hold.
FirstEvaluations(E, vv, S) ==
    Cardinality({x \in S \ E.evaluated : ~InArchive(vv[x])})

\* _scale_objectives returning early on an empty population.
scale_objectives_guarded(E, vv) ==
    IF E.raised # "none" THEN E
    ELSE
      LET inds == Range(E.individuals)
          E1 == [E EXCEPT
                   !.cost = @ + Cardinality({x \in inds : ScaleCounts(E, vv, x)}),
                   !.known = [x \in DOMAIN @ |-> (x \in inds) \/ @[x]],
                   !.evaluated = @ \cup inds,
                   !.first_evals = @ + FirstEvaluations(E, vv, inds)]
      IN  IF inds = {} THEN E1
          ELSE [E1 EXCEPT !.scaled = MinMax(E.individuals, vv, nobj)]

\* IBEA._scale_objectives
scale_objectives(E, vv) ==
    IF E.raised # "none" THEN E
    ELSE
      LET inds == Range(E.individuals)
          E1 == [E EXCEPT
                   !.cost = @ + Cardinality({x \in inds : ScaleCounts(E, vv, x)}),
                   !.known = [x \in DOMAIN @ |-> (x \in inds) \/ @[x]],
                   !.evaluated = @ \cup inds,
                   !.first_evals = @ + FirstEvaluations(E, vv, inds)]
      IN  IF nobj > 0 /\ inds = {}
          THEN [E1 EXCEPT !.raised = "ValueError"]
          ELSE [E1 EXCEPT !.scaled = MinMax(E.individuals, vv, nobj)]

RECURSIVE FitnessSum(_, _, _, _)
FitnessSum(S, x1, ind, cc) ==
    IF S = {} THEN Zero
    ELSE LET x2 == CHOOSE x \in S : TRUE
         IN  AddTerm(FitnessSum(S \ {x2}, x1, ind, cc),
                     Exponent(ind[<<x2, x1>>], cc), -1)

Indicators(inds, sc, vv) ==
    [p \in inds \X inds |-> EPlusIndicator(sc, vv[p[1]], vv[p[2]])]

MaxAbs(ind) == LexMax({LexAbs(ind[p]) : p \in DOMAIN ind})

Fitness(inds, ind, cc) ==
    [x1 \in inds |-> FitnessSum(inds \ {x1}, x1, ind, cc)]

\* IBEA._calculate_fitness
calculate_fitness(E, vv) ==
    IF E.raised # "none" THEN E
    ELSE
      LET inds == Range(E.individuals) IN
      IF inds # {} /\ nobj = 0
      THEN [E EXCEPT !.raised = "ValueError"]
      ELSE IF inds = {}
      THEN [E EXCEPT !.indicators = <<>>, !.raised = "ValueError"]
      ELSE LET ind == Indicators(inds, E.scaled, vv)
               cc == MaxAbs(ind)
           IN  [E EXCEPT !.indicators = ind, !.c = cc,
                         !.fitness = Fitness(inds, ind, cc)]

\* sorted(self.individuals, key=fitness, reverse=True): stable, best first.
InsertDesc(s, x, fit) ==
    LET k == Cardinality({i \in DOMAIN s : ~FitLess(fit[s[i]], fit[x])})
    IN  SubSeq(s, 1, k) \o <<x>> \o SubSeq(s, k + 1, Len(s))

Unsorted(s, fit) == s

RECURSIVE SortDesc(_, _)
SortDesc(s, fit) ==
    IF s = <<>> THEN <<>>
    ELSE InsertDesc(SortDesc(SubSeq(s, 1, Len(s) - 1), fit), s[Len(s)], fit)

RepairSwapped(E, gone, x) ==
    AddTerm(E.fitness[x], Exponent(E.indicators[<<x, gone>>], E.c), 1)

\* The repair of lines 146-148: fitness[x] += exp(-I(removed, x) / |c*k + eps|).
Repair(E, gone, x) ==
    AddTerm(E.fitness[x], Exponent(E.indicators[<<gone, x>>], E.c), 1)

\* One iteration of the loop of IBEA._environmental_selection.
RemoveOne(E) ==
    LET sorted == SortDesc(E.individuals, E.fitness)
        gone == sorted[Len(sorted)]
        rest == SubSeq(sorted, 1, Len(sorted) - 1)
    IN  [E EXCEPT !.individuals = rest, !.rebound = TRUE,
                  !.removed = Append(@, gone),
                  !.fitness = [x \in DOMAIN @ |->
                                 IF x \in Range(rest) THEN Repair(E, gone, x)
                                 ELSE @[x]]]

OversizedOrFull(E) == Len(E.individuals) >= population_size

\* The loop condition of line 143.
Oversized(E) == Len(E.individuals) > population_size

\* IBEA._environmental_selection
RECURSIVE environmental_selection(_)
environmental_selection(E) ==
    IF E.raised # "none" \/ ~Oversized(E) THEN E
    ELSE environmental_selection(RemoveOne(E))

\* The fields of the engine after a method, written back.
Store(E) ==
    /\ individuals' = E.individuals
    /\ known_objectives' = E.known
    /\ cost' = E.cost
    /\ scaled_objectives' = E.scaled
    /\ indicators' = E.indicators
    /\ c' = E.c
    /\ fitness' = E.fitness
    /\ raised' = E.raised
    /\ evaluated' = E.evaluated
    /\ first_evals' = E.first_evals
    /\ removed' = E.removed

OwnAllocated == DOMAIN v

\* Lines 108-113: _mating_selection, _crossover, _mutation, trim and the merge.
\* crossover, mutate and trim_function are external; the offspring vectors are
\* any vectors of the domain, and each is a fresh Individual with
\* known_objectives = False.
Offspring(E, kids) ==
    LET base == Cardinality(OwnAllocated)
        ids == [i \in 1..Len(kids) |-> base + i]
    IN  [E EXCEPT !.individuals = @ \o ids,
                  !.known = [x \in DOMAIN @ \cup Range(ids) |->
                               IF x \in Range(ids) THEN FALSE ELSE @[x]]]

HeapWith(kids) ==
    LET base == Cardinality(OwnAllocated)
    IN  [x \in DOMAIN v \cup {base + i : i \in 1..Len(kids)} |->
           IF x \in DOMAIN v THEN v[x] ELSE kids[x - base]]

\* IBEA._next_step, lines 106-107, and lines 108-115 given the offspring.
select_survivors(E) == environmental_selection(calculate_fitness(E, v))

merge_offspring(E1, kids) ==
    IF E1.raised # "none" THEN E1
    ELSE scale_objectives(Offspring(E1, kids), HeapWith(kids))

next_step(E, kids) == merge_offspring(select_survivors(E), kids)

CanRun ==
    /\ raised = "none"
    /\ ~finished
    /\ pc = "idle"

\* One call of _next_step from engine state E; `yields` when the generator
\* then yields a proxy holding the engine's list.
NextStepFrom(E, yields) ==
    /\ generation_counter < MaxGen
    /\ LET E1 == select_survivors(E) IN
       \E kids \in [1..mating_size -> Vectors] :
         LET E2 == merge_offspring(E1, kids)
             ok == E2.raised = "none"
         IN  /\ Store(E2)
             /\ v' = IF ok THEN HeapWith(kids) ELSE v
             /\ mating_individuals' =
                  IF ok THEN [i \in 1..Len(kids) |-> Cardinality(OwnAllocated) + i]
                  ELSE mating_individuals
             /\ generation_counter' = generation_counter + (IF ok THEN 1 ELSE 0)
             /\ proxy_live' = ((yields /\ ok) \/ (proxy_live /\ ~E2.rebound))
    /\ UNCHANGED <<population_size, mating_size, nobj, fitness_archive,
                   finished, abroad, moves, received, pc, sms>>

\* IBEA.step(1)
Step ==
    /\ CanRun
    /\ NextStepFrom(Engine, FALSE)
    /\ UNCHANGED gen_started

\* IBEA.population_generator: one advance of the generator.  A resumed
\* generator first runs line 90 (self.cost = 0); the proxy it yields holds the
\* engine's current list.
GenAdvance ==
    /\ CanRun
    /\ NextStepFrom([Engine EXCEPT !.cost = IF gen_started THEN 0 ELSE @,
                                   !.first_evals = IF gen_started THEN 0 ELSE @],
                    TRUE)
    /\ gen_started' = TRUE

\* IBEA.finish, also reached through IBEAImgaProxy.finalized_population.
finish(E) ==
    environmental_selection(calculate_fitness(scale_objectives(E, v), v))

Finish ==
    /\ CanRun
    /\ LET E == finish(Engine)
       IN  /\ Store(E)
           /\ finished' = (E.raised = "none")
           /\ proxy_live' = (proxy_live /\ ~E.rebound)
    /\ UNCHANGED <<v, population_size, mating_size, nobj, fitness_archive,
                   generation_counter, mating_individuals, gen_started, abroad,
                   moves, received, pc, sms>>

\* list.remove(x): the list without the first occurrence of x.
RemoveFirst(s, x) ==
    LET i == MinOf({j \in DOMAIN s : s[j] = x})
    IN  SubSeq(s, 1, i - 1) \o SubSeq(s, i + 1, Len(s))

\* The loop of lines 28-31: the individuals whose vector is still among the
\* candidates, each match consuming one candidate.
RECURSIVE ToRemove(_, _)
ToRemove(inds, cands) ==
    IF inds = <<>> THEN <<>>
    ELSE IF v[Head(inds)] \in Range(cands)
    THEN <<Head(inds)>> \o ToRemove(Tail(inds), RemoveFirst(cands, v[Head(inds)]))
    ELSE ToRemove(Tail(inds), cands)

RECURSIVE RemoveAll(_, _)
RemoveAll(inds, gone) ==
    IF gone = <<>> THEN inds
    ELSE RemoveAll(RemoveFirst(inds, Head(gone)), Tail(gone))

Candidates == UNION {[1..n -> Vectors] : n \in 1..MaxMigrants}

\* IBEAImgaProxy.deport_emigrants on the proxy last yielded; the Individuals
\* it returns are held by the caller.
DeportEmigrants ==
    /\ CanRun
    /\ proxy_live
    /\ moves < MaxMoves
    /\ moves' = moves + 1
    /\ \E immigrants \in Candidates :
         LET to_remove == ToRemove(individuals, immigrants)
         IN  /\ individuals' = RemoveAll(individuals, to_remove)
             /\ abroad' = abroad \cup Range(to_remove)
    /\ UNCHANGED <<v, known_objectives, population_size, mating_size, nobj,
                   fitness_archive, cost, generation_counter, scaled_objectives,
                   indicators, c, fitness, mating_individuals, raised, finished,
                   gen_started, proxy_live, evaluated, first_evals, received,
                   removed, pc, sms>>

\* IBEAImgaProxy.assimilate_immigrants: self.individuals.extend(emigrants),
\* given Individuals the caller holds.
assimilate_replacing(inds, emigrants) == emigrants

assimilate_immigrants(inds, emigrants) == inds \o emigrants

AssimilateImmigrants ==
    /\ CanRun
    /\ proxy_live
    /\ moves < MaxMoves
    /\ moves' = moves + 1
    /\ \E S \in SUBSET abroad :
         /\ S # {}
         /\ individuals' = assimilate_immigrants(individuals, SeqOfSet(S))
         /\ abroad' = abroad \ S
         /\ received' = received \cup S
    /\ UNCHANGED <<v, known_objectives, population_size, mating_size, nobj,
                   fitness_archive, cost, generation_counter, scaled_objectives,
                   indicators, c, fitness, mating_individuals, raised, finished,
                   gen_started, proxy_live, evaluated, first_evals, removed, pc,
                   sms>>

\* IBEA.calculate_objectives, line 181-184: does this call count an evaluation.
CalcCounts(x) == ~InArchive(v[x]) /\ ~known_objectives[x]

\* IBEA.calculate_objectives applied to each Individual of S once.
calculate_objectives(S) ==
    /\ cost' = cost + Cardinality({x \in S : CalcCounts(x)})
    /\ evaluated' = evaluated \cup {x \in S : ~InArchive(v[x])}
    /\ first_evals' = first_evals + FirstEvaluations(Engine, v, S)
    /\ UNCHANGED <<individuals, v, known_objectives, population_size,
                   mating_size, nobj, fitness_archive, generation_counter,
                   scaled_objectives, indicators, c, fitness,
                   mating_individuals, raised, finished, gen_started,
                   proxy_live, abroad, moves, received, removed, pc, sms>>

\* IBEA.calculate_objectives(ind), called by a driver on an Individual.
CalculateObjectives ==
    /\ CanRun
    /\ nobj > 0
    /\ \E x \in Range(individuals) \cup abroad : calculate_objectives({x})

\* IBEAImgaProxy.nominate_delegates: paretofront_layers asks for the
\* objectives of every individual of the proxy's list.
paretofront_layers_calls(inds) == Range(inds)

NominateDelegates ==
    /\ CanRun
    /\ proxy_live
    /\ nobj > 0
    /\ individuals # <<>>
    /\ calculate_objectives(paretofront_layers_calls(individuals))

ArchiveChoices ==
    {[present |-> FALSE, keys |-> {}], [present |-> TRUE, keys |-> {<<0>>}]}

Populations == UNION {[1..n -> Vectors] : n \in 0..MaxPop}

\* The SMS-EMOA engine before it is constructed.
SmsIdle ==
    [pc |-> "off", population |-> <<>>, is_list |-> TRUE, value |-> <<>>,
     objectives |-> <<>>, epoch_length |-> 0, budget |-> -1, cost |-> 0,
     left |-> 0, epochs |-> 0, inserted |-> 0, raised |-> "none",
     sorted_input |-> <<>>, fronts |-> <<>>, worst_front |-> <<>>]

\* IBEA.__init__: the population setter (lines 174-178), then
\* _scale_objectives; line 80 sets fitness_archive after them.
IBEAInit ==
    \E population \in Populations, k \in 1..MatingDen, n \in {0, 1},
       archive \in ArchiveChoices :
      LET size == Len(population)
          ids == [i \in 1..size |-> i]
          E0 == [individuals |-> ids, known |-> [i \in 1..size |-> FALSE],
                 cost |-> 0, scaled |-> <<>>, indicators |-> <<>>, c |-> <<>>,
                 fitness |-> <<>>, raised |-> "none", rebound |-> FALSE,
                 evaluated |-> {}, first_evals |-> 0, removed |-> <<>>]
      IN  /\ nobj = n
          /\ fitness_archive = archive
          /\ population_size = size
          /\ mating_size = (k * size) \div MatingDen
          /\ v = population
          /\ LET E == scale_objectives(E0, population)
             IN  /\ individuals = E.individuals
                 /\ known_objectives = E.known
                 /\ cost = E.cost
                 /\ scaled_objectives = E.scaled
                 /\ indicators = E.indicators
                 /\ c = E.c
                 /\ fitness = E.fitness
                 /\ raised = E.raised
                 /\ evaluated = E.evaluated
                 /\ first_evals = E.first_evals
          /\ mating_individuals = <<>>
          /\ generation_counter = 0
          /\ finished = FALSE
          /\ gen_started = FALSE
          /\ proxy_live = FALSE
          /\ abroad = {}
          /\ moves = 0
          /\ received = {}
          /\ removed = <<>>
          /\ pc = "idle"

Init ==
    /\ IBEAInit
    /\ sms = SmsIdle

Next ==
    \/ Step
    \/ GenAdvance
    \/ Finish
    \/ DeportEmigrants
    \/ AssimilateImmigrants
    \/ CalculateObjectives
    \/ NominateDelegates

Spec == Init /\ [][Next]_vars

\* ------------------------------------- finish(), statement by statement
\* The same engine with finish() (lines 100-103) run one statement, and one
\* iteration of the selection loop, at a time.  It starts when finish() is
\* called: the population is what the last generation left (survivors,
\* offspring, immigrants), every individual evaluated, with two objectives.
MaxSel == MaxPop + 1

SelVectors == (0..(MaxVal + 1)) \X (0..(MaxVal + 1))

EngineNow == [Engine EXCEPT !.removed = removed]

SelInit ==
    \E population \in UNION {[1..n -> SelVectors] : n \in 1..MaxSel},
       size \in 1..MaxPop :
      /\ nobj = 2
      /\ fitness_archive = [present |-> FALSE, keys |-> {}]
      /\ population_size = size
      /\ mating_size = size
      /\ v = population
      /\ individuals = [i \in 1..Len(population) |-> i]
      /\ known_objectives = [i \in 1..Len(population) |-> TRUE]
      /\ cost = 0
      /\ scaled_objectives = MinMax(individuals, v, nobj)
      /\ indicators = <<>>
      /\ c = <<>>
      /\ fitness = <<>>
      /\ mating_individuals = <<>>
      /\ raised = "none"
      /\ generation_counter = 0
      /\ finished = FALSE
      /\ gen_started = FALSE
      /\ proxy_live = FALSE
      /\ abroad = {}
      /\ moves = 0
      /\ evaluated = Range(individuals)
      /\ first_evals = 0
      /\ received = {}
      /\ removed = <<>>
      /\ pc = "scale"
      /\ sms = SmsIdle

Unselected == <<v, population_size, mating_size, nobj, fitness_archive,
                generation_counter, mating_individuals, gen_started, abroad,
                moves, received, proxy_live, sms>>

\* line 100
FinishScale ==
    /\ pc = "scale"
    /\ Store(scale_objectives(EngineNow, v))
    /\ pc' = "fitness"
    /\ UNCHANGED <<Unselected, finished>>

\* line 101
FinishFitness ==
    /\ pc = "fitness"
    /\ Store(calculate_fitness(EngineNow, v))
    /\ pc' = "select"
    /\ UNCHANGED <<Unselected, finished>>

\* line 102: one iteration of the loop of _environmental_selection
SelectOne ==
    /\ pc = "select"
    /\ Oversized(EngineNow)
    /\ Store(RemoveOne(EngineNow))
    /\ UNCHANGED <<Unselected, finished, pc>>

\* line 102, the loop left, and line 103
FinishReturn ==
    /\ pc = "select"
    /\ ~Oversized(EngineNow)
    /\ finished' = TRUE
    /\ pc' = "done"
    /\ UNCHANGED <<Unselected, individuals, known_objectives, cost,
                   scaled_objectives, indicators, c, fitness, raised,
                   evaluated, first_evals, removed>>

SelNext ==
    \/ FinishScale
    \/ FinishFitness
    \/ SelectOne
    \/ FinishReturn

SpecSel == SelInit /\ [][SelNext]_vars

\* ------------------------------------------------------------ SMS-EMOA
\* The engine of ep/smsemoa/smsemoa.py.  An Individual is a number; value
\* and objectives are its fields, objectives being <<>> until evaluated.
\* The fitnesses are the two coordinates of the value.  population is
\* self.__population: a list of Individuals while is_list holds, and the one
\* Individual population[1] once reduce_population has returned one.
SmsVectors == (0..MaxVal) \X (0..MaxVal)

NoBudget == -1

\* ep.utils.ea_utils.dominates: no worse in every objective (minimisation)
\* and strictly better in one.
dominates(a, b) ==
    /\ \A i \in DOMAIN a : a[i] <= b[i]
    /\ \E i \in DOMAIN a : a[i] < b[i]

\* lines 77-78
dominated_by(pop, obj, x) == {y \in Range(pop) : dominates(obj[x], obj[y])}

\* lines 79-80
how_many_dominates(pop, obj, x) ==
    Cardinality({j \in DOMAIN pop :
                   /\ ~dominates(obj[x], obj[pop[j]])
                   /\ dominates(obj[pop[j]], obj[x])})

\* lines 75, 81-82
FirstFront(pop, obj) ==
    LET Undominated(x) == how_many_dominates(pop, obj, x) = 0
    IN  SelectSeq(pop, Undominated)

Kept(counts, y) == counts

\* line 89
Decrement(counts, y) == [counts EXCEPT ![y] = @ - 1]

\* lines 88-91, for one x of the front.  A Python set is iterated in an
\* order the language does not fix; it decides only the order of the next
\* front, which nothing reads.
RECURSIVE Release(_, _, _)
Release(ys, counts, next) ==
    IF ys = <<>> THEN [counts |-> counts, next |-> next]
    ELSE LET y == Head(ys)
             counts2 == Decrement(counts, y)
         IN  Release(Tail(ys), counts2,
                     IF counts2[y] = 0 THEN Append(next, y) ELSE next)

\* lines 87-91
RECURSIVE PeelFront(_, _, _, _, _)
PeelFront(xs, pop, obj, counts, next) ==
    IF xs = <<>> THEN [counts |-> counts, next |-> next]
    ELSE LET r == Release(SeqOfSet(dominated_by(pop, obj, Head(xs))),
                          counts, next)
         IN  PeelFront(Tail(xs), pop, obj, r.counts, r.next)

\* lines 83-92: fronts[k] is front[k]; the loop ends at the first empty
\* front, which is a key of the dictionary too.
RECURSIVE Peel(_, _, _, _)
Peel(fronts, pop, obj, counts) ==
    LET cur == fronts[Len(fronts)]
    IN  IF cur = <<>> THEN fronts
        ELSE LET r == PeelFront(cur, pop, obj, counts, <<>>)
             IN  Peel(Append(fronts, r.next), pop, obj, r.counts)

nd_sort(pop, obj) ==
    Peel(<<FirstFront(pop, obj)>>, pop, obj,
         [x \in Range(pop) |-> how_many_dominates(pop, obj, x)])

\* line 59: the front under the key len(pop); a defaultdict gives the empty
\* list for a key it does not hold.
WorstFront(fronts, pop) ==
    IF Len(pop) \in DOMAIN fronts THEN fronts[Len(pop)] ELSE <<>>

\* lines 57-67.  min() of no candidates raises ValueError; of one candidate
\* it is that candidate, whose first component, an Individual, is returned.
\* The key len(pop) never holds two individuals (there are len(pop) of them
\* and every earlier front is not empty).
reduce_population(S, pop) ==
    LET fronts == nd_sort(pop, S.objectives)
        worst_front == WorstFront(fronts, pop)
        S1 == [S EXCEPT !.sorted_input = pop, !.fronts = fronts,
                        !.worst_front = worst_front]
    IN  IF worst_front = <<>>
        THEN [S1 EXCEPT !.raised = "ValueError", !.pc = "raised"]
        ELSE [S1 EXCEPT !.population = <<worst_front[1]>>, !.is_list = FALSE]

\* The SMS-EMOA engine constructed (lines 11-14); no IBEA engine exists.
SMSInit ==
    /\ individuals = <<>>
    /\ v = <<>>
    /\ known_objectives = <<>>
    /\ population_size = 0
    /\ mating_size = 0
    /\ nobj = 0
    /\ fitness_archive = [present |-> FALSE, keys |-> {}]
    /\ cost = 0
    /\ generation_counter = 0
    /\ scaled_objectives = <<>>
    /\ indicators = <<>>
    /\ c = <<>>
    /\ fitness = <<>>
    /\ mating_individuals = <<>>
    /\ raised = "none"
    /\ finished = FALSE
    /\ gen_started = FALSE
    /\ proxy_live = FALSE
    /\ abroad = {}
    /\ moves = 0
    /\ evaluated = {}
    /\ first_evals = 0
    /\ received = {}
    /\ removed = <<>>
    /\ pc = "off"
    /\ \E pop \in UNION {[1..n -> SmsVectors] : n \in 0..MaxSmsPop},
          k \in 1..MatingDen, budget \in {NoBudget} \cup 0..MaxBudget :
         sms = [SmsIdle EXCEPT
                  !.pc = "idle",
                  !.population = [i \in 1..Len(pop) |-> i],
                  !.value = pop,
                  !.objectives = [i \in 1..Len(pop) |-> <<>>],
                  !.epoch_length = (k * Len(pop)) \div MatingDen,
                  !.budget = budget]

\* lines 44-48
Evaluate(S, pop) ==
    [S EXCEPT !.objectives =
       [i \in DOMAIN S.objectives |->
          IF i \in Range(pop) THEN S.value[i] ELSE S.objectives[i]]]

\* line 30: steps() is called; iterating a population that is not a list
\* raises TypeError.
StepsBegin ==
    /\ sms.pc = "idle"
    /\ sms' = IF sms.is_list
              THEN [Evaluate(sms, sms.population) EXCEPT
                      !.cost = Len(sms.population), !.pc = "outer"]
              ELSE [sms EXCEPT !.raised = "TypeError", !.pc = "raised"]
    /\ UNCHANGED ibeaVars

\* lines 32-33: condI gives one more item
EpochBegin ==
    /\ sms.pc = "outer"
    /\ sms.epochs < MaxGen
    /\ sms' = [sms EXCEPT !.epochs = @ + 1, !.left = sms.epoch_length,
                          !.pc = IF sms.epoch_length > 0 THEN "inner" ELSE "outer"]
    /\ UNCHANGED ibeaVars

\* lines 34-39: one insertion.  random.sample raises TypeError on a
\* population that is not a sequence and ValueError on fewer than two.
Insert ==
    /\ sms.pc = "inner"
    /\ \E child \in SmsVectors :
         LET new_indiv == Len(sms.value) + 1
             S1 == [sms EXCEPT !.value = Append(@, child),
                               !.objectives = Append(@, <<>>),
                               !.inserted = @ + 1]
             S2 == [Evaluate(S1, <<new_indiv>>) EXCEPT !.cost = @ + 1]
             S3 == reduce_population(S2, Append(sms.population, new_indiv))
             S4 == [S3 EXCEPT !.left = @ - 1]
         IN  sms' =
               IF ~sms.is_list
               THEN [sms EXCEPT !.raised = "TypeError", !.pc = "raised"]
               ELSE IF Len(sms.population) < 2
               THEN [sms EXCEPT !.raised = "ValueError", !.pc = "raised"]
               ELSE IF S3.pc = "raised" THEN S3
               ELSE IF S4.budget # NoBudget /\ S4.cost > S4.budget
               THEN [S4 EXCEPT !.pc = "idle"]
               ELSE IF S4.left = 0 THEN [S4 EXCEPT !.pc = "outer"]
               ELSE S4
    /\ UNCHANGED ibeaVars

\* line 41: condI is exhausted
StepsReturn ==
    /\ sms.pc = "outer"
    /\ sms' = [sms EXCEPT !.pc = "idle"]
    /\ UNCHANGED ibeaVars

\* lines 25-26 and 19: the values of the population
SmsFinish ==
    /\ sms.pc = "idle"
    /\ sms' = IF sms.is_list THEN [sms EXCEPT !.pc = "finished"]
              ELSE [sms EXCEPT !.raised = "TypeError", !.pc = "raised"]
    /\ UNCHANGED ibeaVars

SMSNext ==
    \/ StepsBegin
    \/ EpochBegin
    \/ Insert
    \/ StepsReturn
    \/ SmsFinish

SpecSMS == SMSInit /\ [][SMSNext]_vars

\* ------------------------------------------------------------- claims
Min2(a, b) == IF a < b THEN a ELSE b

Generation == generation_counter' # generation_counter

\* C1 as stated: after every completed generation step the engine holds
\* exactly population_size individuals.
C1_SizeIsPopulationSize ==
    [][Generation => Len(individuals') = population_size]_vars

\* C1, amended: a completed generation step leaves the survivors of the
\* selection (the individuals it started with, cut to population_size) plus
\* the mating_size offspring.
C1_SizeAfterStep ==
    [][Generation =>
         Len(individuals') = Min2(Len(individuals), population_size) + mating_size]_vars

C1_Witness ==
    /\ generation_counter > 0
    /\ mating_size > 0
    /\ Len(individuals) = population_size + mating_size

\* C3: the evaluation counter equals the number of first evaluations that the
\* archive did not serve (since the counter was last reset).
C3_CostCountsFirstEvaluations == cost = first_evals

\* C8 as stated: an engine built on an empty population raises nothing.
C8_EmptyRaisesNothing == population_size = 0 => raised = "none"

\* C8, amended: with an empty population and at least one objective the
\* constructor raises ValueError; with no objective it completes with an
\* empty population and cost 0, no step or finish ever completes, and every
\* one of them raises ValueError.
C8_EmptyRaises ==
    /\ [](population_size = 0 =>
            /\ individuals = <<>>
            /\ cost = 0
            /\ generation_counter = 0
            /\ ~finished
            /\ nobj > 0 => raised = "ValueError")
    /\ [][population_size = 0 => raised' = "ValueError"]_vars

C8_Witness ==
    /\ population_size = 0
    /\ nobj = 0
    /\ raised = "ValueError"

Assimilation == received' # received

Appended == (Len(individuals) + 1)..Len(individuals')

\* C9 as stated: assimilate_immigrants appends new, unevaluated Individuals.
C9_WrapsVectors ==
    [][Assimilation =>
         \A i \in Appended :
           /\ individuals'[i] \notin DOMAIN v
           /\ ~known_objectives'[individuals'[i]]]_vars

\* C9, amended: given Individuals, assimilate_immigrants appends those very
\* objects after the individuals already there, creates no Individual and
\* leaves every known_objectives flag as it was.
C9_AppendsGivenObjects ==
    [][Assimilation =>
         /\ Len(individuals') = Len(individuals) + Cardinality(received' \ received)
         /\ SubSeq(individuals', 1, Len(individuals)) = individuals
         /\ {individuals'[i] : i \in Appended} = received' \ received
         /\ received' \ received \subseteq abroad
         /\ v' = v
         /\ known_objectives' = known_objectives]_vars

C9_Witness ==
    \E x \in received :
      /\ x \in Range(individuals)
      /\ known_objectives[x]
      /\ Len(individuals) > 1

\* C10: whenever a generation computes the fitness, the min/max behind the
\* scaled objectives are those of the individuals then in the population.
C10_ScaledOverCurrentPopulation ==
    [][Generation => scaled_objectives = MinMax(individuals, v, nobj)]_vars

Selecting == pc \in {"select", "done"}

Max2(a, b) == IF a > b THEN a ELSE b

StartSize == Cardinality(DOMAIN v)

\* C6: the selection removes one individual per iteration, each of lowest
\* fitness among those present, and ends after max(s - population_size, 0)
\* removals with min(s, population_size) individuals.
C6_SelectionRemovesLowest ==
    /\ [](pc = "done" =>
            /\ Len(removed) = Max2(StartSize - population_size, 0)
            /\ Len(individuals) = Min2(StartSize, population_size))
    /\ [][removed' # removed =>
            LET r == removed'[Len(removed')]
            IN  /\ Len(individuals) > population_size
                /\ removed' = Append(removed, r)
                /\ r \in Range(individuals)
                /\ \A x \in Range(individuals) : ~FitLess(fitness[x], fitness[r])
                /\ Range(individuals') = Range(individuals) \ {r}
                /\ Len(individuals') = Len(individuals) - 1]_vars

C6_Witness ==
    /\ pc = "done"
    /\ Len(removed) = 2
    /\ \E x \in Range(individuals) : FitLess(fitness[removed[1]], fitness[x])

Inserting == sms'.inserted # sms.inserted

\* C2 as stated: every insertion of steps() leaves the population a list of
\* individuals of the size it had before the insertion.
C2_InsertionKeepsSize ==
    [][Inserting =>
         /\ sms'.raised = "none"
         /\ sms'.is_list
         /\ Len(sms'.population) = Len(sms.population)]_vars

Members(fronts) == UNION {Range(fronts[k]) : k \in DOMAIN fronts}

LastNonEmpty(fronts) ==
    LET ks == {k \in DOMAIN fronts : fronts[k] # <<>>}
    IN  IF ks = {} THEN <<>> ELSE fronts[MaxOf(ks)]

Reduced == sms.sorted_input # <<>>

\* C4 as stated: the candidates reduce_population takes are the last
\* non-empty front of nd_sort, and the individual it hands back comes from
\* that front.
C4_CandidatesAreLastNonEmptyFront ==
    Reduced =>
      /\ sms.worst_front = LastNonEmpty(sms.fronts)
      /\ sms.raised = "none"

Occurrences(fronts, x) ==
    Cardinality({ki \in (DOMAIN fronts) \X (1..Len(sms.sorted_input)) :
                   /\ ki[2] \in DOMAIN fronts[ki[1]]
                   /\ fronts[ki[1]][ki[2]] = x})

\* C7: nd_sort puts every individual of the population in exactly one
\* front, once, and nothing else in any; fronts are numbered from 1 without
\* a gap; front 1 holds exactly the individuals no other one dominates.
C7_FrontsPartition ==
    Reduced =>
      LET pop == sms.sorted_input
          fronts == sms.fronts
          obj == sms.objectives
      IN  /\ \A x \in Range(pop) : Occurrences(fronts, x) = 1
          /\ Members(fronts) = Range(pop)
          /\ DOMAIN fronts = 1..Len(fronts)
          /\ \A k \in 1..(Len(fronts) - 1) : fronts[k] # <<>>
          /\ Range(fronts[1]) =
               {x \in Range(pop) :
                  ~\E y \in Range(pop) : dominates(obj[y], obj[x])}

C7_Witness ==
    /\ Reduced
    /\ Len(sms.sorted_input) = 4
    /\ Len(sms.fronts) = 3
    /\ Len(sms.fronts[2]) = 2
    /\ \E x, y \in Range(sms.sorted_input) :
         x # y /\ sms.objectives[x] = sms.objectives[y]

====
